---- MODULE Spec2Model ----
(***************************************************************************)
(* Model of the avatar-video pipeline of ai-character-chat-app:            *)
(*   - TavusClient.wait_for_video / get_status  (src/tavus_client.py)      *)
(*   - TavusClient.create_video                 (src/tavus_client.py)      *)
(*   - generate_avatar_video / converse         (src/app.py)               *)
(*                                                                         *)
(* Conventions.  Python's None for a string-valued field is the value      *)
(* None below; an Optional[int] argument is the empty tuple (omitted /     *)
(* None) or a one-element tuple <<n>>.  A JSON body is the dictionary the  *)
(* code reads it as; data.get(k) of a missing key is None.  A text that is *)
(* stripped is <<>> (None) or <<chars>>, chars a sequence of characters.   *)
(***************************************************************************)
EXTENDS Integers, Sequences, FiniteSets, TLC

VARIABLES
    \* ---- TavusClient.wait_for_video (one generator object) ----
    tavus,        \* self._tavus: the TavusConfig the client was built with
    w_args,       \* the call's arguments poll_interval, max_wait
    wpc,          \* where the generator is suspended
    now,          \* time.monotonic()
    start,        \* time.monotonic() when the generator body began
    interval,     \* local `interval`
    deadline,     \* local `deadline`
    yielded,      \* the elements produced so far, in order
    polls,        \* number of GET requests issued by get_status
    polltime,     \* total time spent inside get_status round trips
    pulls,        \* number of elements the consumer has requested (next())
    answers,      \* what the service answered to each status request
    \* ---- create_video / generate_avatar_video (one call) ----
    cpc,          \* "idle", "called", "returned"
    c_path,       \* which creation function is called
    script,       \* the argument: <<>> (None) or <<sequence of characters>>
    c_resp,       \* what the video service would answer to the POST
    c_out,        \* the value returned by the call
    posts,        \* number of POST requests issued
    printed,      \* messages app.py printed during the call
    \* ---- converse (one generator per turn) ----
    turn,         \* per-turn state of app.converse
    service,      \* the video service's jobs, where turns share one service
    \* ---- configuration loading ----
    env,          \* the process environment
    loading       \* the loading call and its outcome

vars == <<tavus, w_args, wpc, now, start, interval, deadline, yielded, polls,
          polltime, pulls, answers, cpc, c_path, script, c_resp, c_out, posts,
          printed, turn, service, env, loading>>

waitVars == <<tavus, w_args, wpc, now, start, interval, deadline, yielded,
              polls, polltime, pulls, answers>>
createVars == <<cpc, c_path, script, c_resp, c_out, posts, printed>>
turnVars == <<turn, service>>
configVars == <<env, loading>>

----------------------------------------------------------------------------
(* Bounds of the model *)

MaxInterval == 2    \* largest poll_interval argument explored
MaxWait == 4        \* largest max_wait argument explored
MaxPollTime == 1    \* longest round trip of one status request
MaxStart == 1       \* latest clock reading at which a wait begins
MaxScriptLen == 2   \* longest script text explored
MaxEnvLen == 2      \* longest environment value explored
MaxAfter == 2       \* most status requests a job answers `generating` before its final answer

----------------------------------------------------------------------------
(* Python values *)

None == "<None>"

\* Python truthiness of an Optional[str]
Truthy(x) == x # None /\ x # ""

\* Python `a or b` on Optional[str] values
Or(a, b) == IF Truthy(a) THEN a ELSE b

\* Python `a or b` where a is an Optional[int] (<<>> is None) and b an int
HasIntValue(a) == a # <<>> /\ a[1] # 0

\* (mutant) `a if a is not None else b`: a given 0 is kept
OrInt_NoneOnly(a, b) == IF a # <<>> THEN a[1] ELSE b

OrInt(a, b) == IF HasIntValue(a) THEN a[1] ELSE b

Last(s) == s[Len(s)]

----------------------------------------------------------------------------
(* TavusClient.get_status *)

\* What the video service can answer to GET <status_url>.  "request_exception"
\* is a transport failure or a non-2xx answer (raise_for_status), and
\* "value_error" an unparsable body; otherwise `data` is the JSON object.
StatusData(st, url, det) == [status |-> st, download_url |-> url, status_details |-> det]

MissingStatus == "<missing>"

StatusBodies ==
    { StatusData(MissingStatus, None, None),
      StatusData("queued", None, None),
      StatusData("generating", None, None),
      StatusData("processing", None, None),
      StatusData("ready", "https://x/y.mp4", None),
      StatusData("ready", None, None),
      StatusData("ready", "", None),
      StatusData("error", None, "render failed"),
      StatusData("error", None, None),
      StatusData("deleted", None, None) }

StatusResponses ==
    { [kind |-> "request_exception", data |-> StatusData(MissingStatus, None, None)],
      [kind |-> "value_error", data |-> StatusData(MissingStatus, None, None)] }
    \cup { [kind |-> "ok", data |-> d] : d \in StatusBodies }

VideoStatusResult(st, url, det) ==
    [status |-> st, download_url |-> url, status_details |-> det]

get_status(resp) ==
    IF resp.kind = "request_exception"
    THEN VideoStatusResult("error", None, "RequestException")
    ELSE IF resp.kind = "value_error"
    THEN VideoStatusResult("error", None, "Invalid JSON")
    ELSE VideoStatusResult(
            IF resp.data.status = MissingStatus THEN "unknown" ELSE resp.data.status,
            resp.data.download_url,
            resp.data.status_details)

----------------------------------------------------------------------------
(* TavusClient.wait_for_video *)

TimeoutResult == VideoStatusResult("timeout", None, "Video generation timed out.")

\* (mutant) the loop also runs when the clock reads exactly the deadline
LoopCond_Inclusive(t, dl) == t <= dl

\* `while time.monotonic() < deadline`
LoopCond(t, dl) == t < dl

\* (mutant) the sequence also ends on a `queued` result
ReturnsAfter_OnQueued(result) ==
    result.status \in {"ready", "error", "deleted", "queued"}

\* (mutant) the sequence goes on only after `queued` and `generating`
ReturnsAfter_UnlessPending(result) ==
    result.status \notin {"queued", "generating"}

\* (mutant) the `ready` test is missing
ReturnsAfter_NoReady(result) ==
    result.status \in {"error", "deleted"}

\* the two `return` tests after the yield
ReturnsAfter(result) ==
    \/ result.status = "ready"
    \/ result.status \in {"error", "deleted"}

IntArgs(max) == {<<>>, <<0>>, <<-1>>} \cup { <<n>> : n \in 1..max }

\* spec.md section 8's scenario: pollInterval = 10, maxWait = 20
ScenarioArgs == [poll_interval |-> <<10>>, max_wait |-> <<20>>]

WaitArgs ==
    [poll_interval : IntArgs(MaxInterval), max_wait : IntArgs(MaxWait)]
        \cup {ScenarioArgs}

\* TavusConfig values a client can be built with: the tunables are positive
TavusConfig(replica, poll, wait) ==
    [replica_id |-> replica, base_url |-> "https://tavusapi.com",
     poll_interval_seconds |-> poll, poll_max_wait_seconds |-> wait]

TavusConfigs ==
    { TavusConfig("rcefb7292e", 1, 3), TavusConfig("rcefb7292e", 2, 2) }

\* (mutant) the generator ends at the deadline without a final element
LoopHead_NoTimeoutElement(t, dl) ==
    IF LoopCond(t, dl)
    THEN \E resp \in StatusResponses, d \in 0..MaxPollTime :
            /\ now' = t + d
            /\ polltime' = polltime + d
            /\ polls' = polls + 1
            /\ yielded' = Append(yielded, get_status(resp))
            /\ answers' = Append(answers, resp)
            /\ wpc' = "yield_result"
    ELSE /\ now' = t
         /\ wpc' = "done"
         /\ UNCHANGED <<yielded, polls, polltime, answers>>

\* (mutant) the status of the next pass is fetched ahead of the consumer
LoopHead_Prefetch(t, dl) ==
    IF LoopCond(t, dl)
    THEN \E resp \in StatusResponses, d \in 0..MaxPollTime :
            /\ now' = t + d
            /\ polltime' = polltime + d
            /\ polls' = polls + 2
            /\ yielded' = Append(yielded, get_status(resp))
            /\ answers' = Append(answers, resp)
            /\ wpc' = "yield_result"
    ELSE /\ now' = t
         /\ yielded' = Append(yielded, TimeoutResult)
         /\ wpc' = "yield_timeout"
         /\ UNCHANGED <<polls, polltime, answers>>

\* One pass of the loop head at clock reading t with deadline dl: either a
\* status request whose result is yielded, or the final timeout element.
\* The clock advances while a status request is in flight (0..MaxPollTime)
\* and by exactly `interval` in time.sleep(interval); the consumer's own
\* time between two elements is not counted.
LoopHead(t, dl) ==
    IF LoopCond(t, dl)
    THEN \E resp \in StatusResponses, d \in 0..MaxPollTime :
            /\ now' = t + d
            /\ polltime' = polltime + d
            /\ polls' = polls + 1
            /\ yielded' = Append(yielded, get_status(resp))
            /\ answers' = Append(answers, resp)
            /\ wpc' = "yield_result"
    ELSE /\ now' = t
         /\ yielded' = Append(yielded, TimeoutResult)
         /\ wpc' = "yield_timeout"
         /\ UNCHANGED <<polls, polltime, answers>>

\* first next(): lines 144-149 (or 144-147, 156)
WaitStart ==
    /\ wpc = "created"
    /\ interval' = OrInt(w_args.poll_interval, tavus.poll_interval_seconds)
    /\ deadline' = now + OrInt(w_args.max_wait, tavus.poll_max_wait_seconds)
    /\ start' = now
    /\ LoopHead(now, deadline')
    /\ pulls' = pulls + 1
    /\ UNCHANGED <<tavus, w_args>>

\* next() while suspended at line 149 with a terminal result: lines 150-153
WaitReturn ==
    /\ wpc = "yield_result"
    /\ ReturnsAfter(Last(yielded))
    /\ wpc' = "done"
    /\ pulls' = pulls + 1
    /\ UNCHANGED <<tavus, w_args, now, start, interval, deadline, yielded, polls,
                   polltime, answers>>

\* next() while suspended at line 149 otherwise: line 154, then the loop head
WaitSleep ==
    /\ wpc = "yield_result"
    /\ ~ReturnsAfter(Last(yielded))
    /\ IF interval < 0
       THEN \* time.sleep raises ValueError for a negative length
            /\ wpc' = "raised"
            /\ UNCHANGED <<now, yielded, polls, polltime, answers>>
       ELSE LoopHead(now + interval, deadline)
    /\ pulls' = pulls + 1
    /\ UNCHANGED <<tavus, w_args, start, interval, deadline>>

\* next() while suspended at line 156: the generator is exhausted
WaitExhaust ==
    /\ wpc = "yield_timeout"
    /\ wpc' = "done"
    /\ pulls' = pulls + 1
    /\ UNCHANGED <<tavus, w_args, now, start, interval, deadline, yielded, polls,
                   polltime, answers>>

InitWaitVars ==
    /\ tavus \in TavusConfigs
    /\ w_args \in WaitArgs
    /\ wpc = "created"
    /\ now \in 0..MaxStart
    /\ start = 0
    /\ interval = 0
    /\ deadline = 0
    /\ yielded = <<>>
    /\ polls = 0
    /\ polltime = 0
    /\ pulls = 0
    /\ answers = <<>>

IdleWaitLocals ==
    /\ w_args = [poll_interval |-> <<>>, max_wait |-> <<>>]
    /\ wpc = "idle"
    /\ now = 0
    /\ start = 0
    /\ interval = 0
    /\ deadline = 0
    /\ yielded = <<>>
    /\ polls = 0
    /\ polltime = 0
    /\ pulls = 0
    /\ answers = <<>>

IdleWaitVars == tavus = TavusConfig("rcefb7292e", 1, 3) /\ IdleWaitLocals

IdleCreateVars ==
    /\ cpc = "idle"
    /\ c_path = "none"
    /\ script = <<>>
    /\ c_resp = None
    /\ c_out = None
    /\ posts = 0
    /\ printed = <<>>

IdleTurn == turn = <<>> /\ service = <<>>

IdleConfig == env = <<>> /\ loading = <<>>

InitWait == InitWaitVars /\ IdleCreateVars /\ IdleTurn /\ IdleConfig

NextWait ==
    \/ WaitStart /\ UNCHANGED <<createVars, turnVars, configVars>>
    \/ WaitReturn /\ UNCHANGED <<createVars, turnVars, configVars>>
    \/ WaitSleep /\ UNCHANGED <<createVars, turnVars, configVars>>
    \/ WaitExhaust /\ UNCHANGED <<createVars, turnVars, configVars>>

SpecWait == InitWait /\ [][NextWait]_vars

\* the consumer keeps requesting elements until the generator is exhausted
FairSpecWait == SpecWait /\ WF_vars(NextWait)

\* The consumer abandons the sequence: it stops calling next() and the
\* generator object is closed or dropped, suspended where it was.
WaitAbandon ==
    /\ wpc \in {"created", "yield_result", "yield_timeout"}
    /\ wpc' = "closed"
    /\ UNCHANGED <<tavus, w_args, now, start, interval, deadline, yielded, polls,
                   polltime, pulls, answers>>

NextPull ==
    \/ NextWait
    \/ WaitAbandon /\ UNCHANGED <<createVars, turnVars, configVars>>

\* a wait whose consumer may stop at any element
SpecPull == InitWait /\ [][NextPull]_vars

----------------------------------------------------------------------------
(* Properties of wait_for_video *)

TerminalKinds == {"ready", "error", "deleted", "timeout"}

\* the values the call works with after `x or default`
EffInterval == OrInt(w_args.poll_interval, tavus.poll_interval_seconds)
EffMaxWait == OrInt(w_args.max_wait, tavus.poll_max_wait_seconds)
PositiveArgs == EffInterval > 0 /\ EffMaxWait > 0

\* elements 1..polls of `yielded` are the results of the status requests
AllPollsGenerating == \A i \in 1..polls : yielded[i].status = "generating"

\* C1: for positive pollInterval and maxWait and whatever the service
\* answers, a wait that keeps being consumed ends (the generator is
\* exhausted), and once it has ended the last element it produced has a
\* kind in {ready, error, deleted, timeout}.
C1_WaitTerminates ==
    /\ [](PositiveArgs => <>(wpc = "done"))
    /\ [](PositiveArgs /\ wpc = "done" =>
            /\ Len(yielded) >= 1
            /\ Last(yielded).status \in TerminalKinds)

C1_Witness ==
    /\ PositiveArgs
    /\ wpc = "done"
    /\ Len(yielded) >= 3
    /\ yielded[1].status = "queued"
    /\ Last(yielded).status = "deleted"

\* C2 (as stated): for positive pollInterval and maxWait the number of
\* elements produced, the timeout element included, is at most
\* maxWait / pollInterval + 1; written without division:
\* (elements - 1) * pollInterval <= maxWait.
C2_Original ==
    PositiveArgs => (Len(yielded) - 1) * EffInterval <= EffMaxWait

\* C2 (amended): the number of elements produced is at most
\* ceil(maxWait / pollInterval) + 1, that is
\* (elements - 2) * pollInterval < maxWait.
C2_LengthBound ==
    PositiveArgs => (Len(yielded) - 2) * EffInterval < EffMaxWait

\* a wait whose maxWait is not a multiple of pollInterval reaches the bound
C2_Witness ==
    /\ PositiveArgs
    /\ wpc = "done"
    /\ EffMaxWait % EffInterval # 0
    /\ (Len(yielded) - 1) * EffInterval > EffMaxWait
    /\ Last(yielded).status = "timeout"

\* C3: if every status poll returned `generating`, no element but the last
\* has a terminal kind, a timeout element is produced only once the
\* deadline has elapsed, and the finished sequence ends with the timeout
\* element.
C3_AllGeneratingTimesOut ==
    PositiveArgs /\ AllPollsGenerating =>
        /\ \A i \in 1..(Len(yielded) - 1) : yielded[i].status \notin TerminalKinds
        /\ wpc = "yield_result" => Last(yielded).status \notin TerminalKinds
        /\ wpc = "yield_timeout" => now >= deadline /\ Last(yielded).status = "timeout"
        /\ wpc = "done" =>
              /\ now >= deadline
              /\ Len(yielded) = polls + 1
              /\ Last(yielded).status = "timeout"

C3_Witness ==
    /\ PositiveArgs
    /\ AllPollsGenerating
    /\ polls >= 2
    /\ wpc = "done"
    /\ Last(yielded).status = "timeout"

\* C4: an element of kind `ready` with a non-empty download locator is the
\* only element of kind `ready`, it is the last element of the sequence (no
\* timeout element follows), and no status request is issued after it.
C4_ReadyEndsSequence ==
    \A i \in 1..Len(yielded) :
        yielded[i].status = "ready" /\ Truthy(yielded[i].download_url) =>
            /\ i = Len(yielded)
            /\ polls = i
            /\ \A j \in 1..Len(yielded) : yielded[j].status = "ready" => j = i

C4_Witness ==
    /\ wpc = "done"
    /\ Len(yielded) >= 2
    /\ Last(yielded).status = "ready"
    /\ Truthy(Last(yielded).download_url)

\* C5: when no poll takes any time and every poll returns `generating`, a
\* finished wait with maxWait = k * pollInterval consists of exactly k
\* `generating` elements followed by exactly one `timeout` element; with
\* maxWait = 20 and pollInterval = 10 that is 2 and 1.
C5_ExactCount ==
    /\ PositiveArgs
    /\ wpc = "done"
    /\ polltime = 0
    /\ AllPollsGenerating
    /\ EffMaxWait % EffInterval = 0
    => /\ polls = EffMaxWait \div EffInterval
       /\ Len(yielded) = polls + 1
       /\ \A i \in 1..polls : yielded[i].status = "generating"
       /\ Last(yielded).status = "timeout"
       /\ (w_args = ScenarioArgs =>
              <<yielded[1].status, yielded[2].status, yielded[3].status>>
                  = <<"generating", "generating", "timeout">>)

C5_Witness ==
    /\ w_args = ScenarioArgs
    /\ wpc = "done"
    /\ polltime = 0
    /\ AllPollsGenerating
    /\ Len(yielded) = 3

----------------------------------------------------------------------------
(* Creating a video job: TavusClient.create_video and                      *)
(* app.generate_avatar_video                                                *)

\* str.strip(): leading and trailing whitespace removed
IsSpace(c) == c \in {" ", "\t", "\n"}

RECURSIVE LStrip(_)
LStrip(s) ==
    IF s = <<>> THEN s
    ELSE IF IsSpace(Head(s)) THEN LStrip(Tail(s)) ELSE s

RECURSIVE RStrip(_)
RStrip(s) ==
    IF s = <<>> THEN s
    ELSE IF IsSpace(s[Len(s)]) THEN RStrip(SubSeq(s, 1, Len(s) - 1)) ELSE s

\* (mutant) the text is used as given
Strip_Missing(s) == s

Strip(s) == RStrip(LStrip(s))

\* `(script or "").strip()`: the argument is <<>> (None) or <<chars>>
StripScript(text) == IF text = <<>> THEN <<>> ELSE Strip(text[1])

RECURSIVE SeqsUpTo(_, _)
SeqsUpTo(S, n) ==
    IF n = 0 THEN {<<>>}
    ELSE LET shorter == SeqsUpTo(S, n - 1)
         IN  shorter \cup { Append(q, c) : q \in shorter, c \in S }

Scripts == {<<>>} \cup { <<chars>> : chars \in SeqsUpTo({" ", "\n", "h"}, MaxScriptLen) }

\* What the video service can answer to POST <videos_url>: a transport
\* failure (requests.RequestException), or a response with a status code, a
\* reason phrase and a body; `data` is the JSON object of the body, or {}
\* (every key missing) when the body does not parse.
CreateData(err, msg, st, vid) ==
    [error |-> err, message |-> msg, status |-> st, video_id |-> vid]

EmptyData == CreateData(None, None, None, None)

CreateBodies ==
    { CreateData(err, msg, st, vid) :
        err \in {None, "", "quota exceeded"},
        msg \in {None, "bad request body"},
        st \in {None, "queued", "error", ""},
        vid \in {None, "", "abc123"} }

HttpOutcomes ==
    { [status_code |-> 200, reason |-> "OK"],
      [status_code |-> 500, reason |-> "Internal Server Error"],
      [status_code |-> 500, reason |-> ""] }

CreateResponses ==
    { [kind |-> "request_exception", status_code |-> 0, reason |-> "", data |-> EmptyData] }
    \cup { [kind |-> "response", status_code |-> h.status_code, reason |-> h.reason, data |-> d] :
             h \in HttpOutcomes, d \in CreateBodies }

\* requests.Response.ok
ResponseOk(response) == response.status_code < 400

\* str(None) in an f-string
Str(x) == IF x = None THEN "None" ELSE x

\* (mutant) only the body's message fields are consulted
HttpErrorMessage_BodyOnly(response) ==
    Or(response.data.error, response.data.message)

\* lines 84-89: the message of a non-success HTTP answer
HttpErrorMessage(response) ==
    Or(Or(Or(response.data.error, response.data.message), response.reason),
       "HTTP " \o ToString(response.status_code))

\* lines 94-98: the message of an answer that is not queued
NotQueuedMessage(data) ==
    Or(Or(data.error, data.message), "Unexpected status: " \o Str(data.status))

\* (mutant) only an explicit error status is refused
NotQueued_OnlyError(data) == data.status = "error"

\* line 93: `data.get("status") != "queued"`
NotQueued(data) == data.status # "queued"

\* (mutant) only a missing key counts, an empty value passes
NoVideoId_OnlyMissing(video_id) == video_id = None

\* line 103: `not video_id`
NoVideoId(video_id) == ~Truthy(video_id)

VideoCreateResult(vid, url, err) ==
    [video_id |-> vid, status_url |-> url, error |-> err]

ErrorResult(err) == VideoCreateResult("", "", err)

\* TavusConfig.videos_url
videos_url(cfg) == cfg.base_url \o "/v2/videos"

\* TavusClient.create_video: the value returned and the number of POST
\* requests issued, given the client's config and the service's answer
create_video(cfg, text, response) ==
    IF StripScript(text) = <<>>
    THEN [out |-> ErrorResult("Script is empty"), posts |-> 0]
    ELSE IF ~Truthy(cfg.replica_id)
    THEN [out |-> ErrorResult("TAVUS_REPLICA_ID is not set"), posts |-> 0]
    ELSE IF response.kind = "request_exception"
    THEN [out |-> ErrorResult("RequestException"), posts |-> 1]
    ELSE IF ~ResponseOk(response)
    THEN [out |-> ErrorResult(HttpErrorMessage(response)), posts |-> 1]
    ELSE IF NotQueued(response.data)
    THEN [out |-> ErrorResult(NotQueuedMessage(response.data)), posts |-> 1]
    ELSE IF NoVideoId(response.data.video_id)
    THEN [out |-> ErrorResult("No video_id in response"), posts |-> 1]
    ELSE [out |-> VideoCreateResult(response.data.video_id,
                      videos_url(cfg) \o "/" \o response.data.video_id, None),
          posts |-> 1]

\* app.generate_avatar_video: the pair returned, the number of POST requests
\* issued and the message printed
AvatarResult(vid, url) == [video_id |-> vid, video_check_url |-> url]

\* lines 52-76: the request and the reading of its answer
avatar_video_request(response) ==
    IF response.kind = "request_exception"
    THEN [out |-> AvatarResult(None, None), posts |-> 1,
          printed |-> "Error generating avatar video: RequestException"]
    ELSE IF ~ResponseOk(response)
    THEN [out |-> AvatarResult(None, None), posts |-> 1,
          printed |-> "Tavus API error: " \o HttpErrorMessage(response)]
    ELSE IF NotQueued(response.data)
    THEN [out |-> AvatarResult(None, None), posts |-> 1,
          printed |-> "Failed to queue video generation: "
                          \o NotQueuedMessage(response.data)]
    ELSE IF NoVideoId(response.data.video_id)
    THEN [out |-> AvatarResult(None, None), posts |-> 1,
          printed |-> "Failed to queue video: no video_id in response."]
    ELSE [out |-> AvatarResult(response.data.video_id,
                      "https://tavusapi.com/v2/videos/" \o response.data.video_id),
          posts |-> 1, printed |-> None]

\* (mutant) the request is made whatever the text
generate_avatar_video_NoEmptyCheck(text, response) ==
    avatar_video_request(response)

generate_avatar_video(text, response) ==
    IF StripScript(text) = <<>>
    THEN [out |-> AvatarResult(None, None), posts |-> 0,
          printed |-> "Video generation skipped: script is empty."]
    ELSE avatar_video_request(response)

CreateConfigs ==
    { TavusConfig(r, 1, 3) : r \in {"", "rcefb7292e"} }

\* a call of TavusClient.create_video
CallCreateVideo ==
    /\ cpc = "called"
    /\ c_path = "create_video"
    /\ LET r == create_video(tavus, script, c_resp)
       IN  /\ c_out' = r.out
           /\ posts' = posts + r.posts
    /\ cpc' = "returned"
    /\ UNCHANGED <<c_path, script, c_resp, printed>>

\* a call of app.generate_avatar_video
CallGenerateAvatarVideo ==
    /\ cpc = "called"
    /\ c_path = "generate_avatar_video"
    /\ LET r == generate_avatar_video(script, c_resp)
       IN  /\ c_out' = r.out
           /\ posts' = posts + r.posts
           /\ printed' = IF r.printed = None THEN printed
                         ELSE Append(printed, r.printed)
    /\ cpc' = "returned"
    /\ UNCHANGED <<c_path, script, c_resp>>

InitCreate ==
    /\ tavus \in CreateConfigs
    /\ IdleWaitLocals
    /\ IdleTurn
    /\ IdleConfig
    /\ cpc = "called"
    /\ c_path \in {"create_video", "generate_avatar_video"}
    /\ script \in Scripts
    /\ c_resp \in CreateResponses
    /\ c_out = None
    /\ posts = 0
    /\ printed = <<>>

waitLocals == <<w_args, wpc, now, start, interval, deadline, yielded, polls, polltime,
                pulls, answers>>

NextCreate ==
    \/ CallCreateVideo /\ UNCHANGED <<tavus, waitLocals, turnVars, configVars>>
    \/ CallGenerateAvatarVideo /\ UNCHANGED <<tavus, waitLocals, turnVars, configVars>>

SpecCreate == InitCreate /\ [][NextCreate]_vars

----------------------------------------------------------------------------
(* Properties of create *)

\* the text is None, empty or made of whitespace only (stated on the
\* characters, not through Strip)
WhitespaceOnly(text) ==
    text = <<>> \/ \A i \in 1..Len(text[1]) : IsSpace(text[1][i])

\* the POST was issued and answered with an HTTP response
Answered == posts = 1 /\ c_resp.kind = "response"

\* the two shapes of a VideoCreateResult
IsHandle(out) == Truthy(out.video_id) /\ Truthy(out.status_url) /\ out.error = None
IsError(out) == Truthy(out.error) /\ out.video_id = "" /\ out.status_url = ""

\* the failure value of generate_avatar_video: (None, None)
IsNoVideo(out) == out.video_id = None /\ out.video_check_url = None

C7_NotQueuedIsError ==
    cpc = "returned" /\ c_resp.kind = "response" /\ c_resp.data.status # "queued" =>
        /\ c_path = "create_video" => IsError(c_out)
        /\ c_path = "generate_avatar_video" => IsNoVideo(c_out)

C7_Witness ==
    /\ cpc = "returned"
    /\ c_path = "create_video"
    /\ Answered
    /\ c_resp.status_code = 200
    /\ c_resp.data.status = None
    /\ c_resp.data.video_id = "abc123"
    /\ ~Truthy(c_resp.data.error)
    /\ c_out.error = "Unexpected status: None"

\* a success response with status "queued" whose video_id is missing or
\* empty was received by create_video
QueuedWithoutVideoId ==
    /\ cpc = "returned"
    /\ c_path = "create_video"
    /\ Answered
    /\ ResponseOk(c_resp)
    /\ c_resp.data.status = "queued"
    /\ ~Truthy(c_resp.data.video_id)

\* C8 (as stated): for a success response with status "queued" whose
\* video_id is missing or empty, create returns an error outcome whose
\* message is exactly "no job handle in response".
C8_Original ==
    QueuedWithoutVideoId =>
        IsError(c_out) /\ c_out.error = "no job handle in response"

\* C8 (amended): for a success response with status "queued" whose video_id
\* is missing or empty, create_video returns an error outcome whose message
\* is exactly "No video_id in response".
C8_NoVideoIdMessage ==
    QueuedWithoutVideoId =>
        IsError(c_out) /\ c_out.error = "No video_id in response"

C8_Witness ==
    /\ QueuedWithoutVideoId
    /\ c_resp.data.video_id = ""
    /\ c_out.error = "No video_id in response"

\* C9: every value returned by create_video is either a handle (non-empty
\* video_id and status_url, no error) or an error (non-empty error, empty
\* video_id and status_url), never both and never neither.
C9_ExactlyOnePopulated ==
    cpc = "returned" /\ c_path = "create_video" =>
        /\ IsHandle(c_out) \/ IsError(c_out)
        /\ ~(IsHandle(c_out) /\ IsError(c_out))
        /\ ~(c_out.video_id = "" /\ c_out.status_url = "" /\ ~Truthy(c_out.error))

\* a non-success HTTP answer that carries no message of its own
C9_Witness ==
    /\ cpc = "returned"
    /\ c_path = "create_video"
    /\ Answered
    /\ c_resp.status_code = 500
    /\ c_resp.reason = ""
    /\ ~Truthy(c_resp.data.error)
    /\ ~Truthy(c_resp.data.message)
    /\ c_out = ErrorResult("HTTP 500")

----------------------------------------------------------------------------
(* app.converse: one generator object per turn.  What the presentation     *)
(* layer is given is what the generator yields (`emitted`); the value of a  *)
(* `return` statement inside a generator travels in StopIteration and is    *)
(* not an element of the sequence (`retval`).                               *)

poll_interval == 10
max_wait_seconds == 20 * 60

\* an output pair: the text and gr.update(value=..., label=..., visible=...)
Output(text, value, label) == [text |-> text, value |-> value, label |-> label]

\* what agent.exec can do: raise, or return a reply text
ExecOutcomes ==
    { [kind |-> "raises", text |-> <<>>] }
    \cup { [kind |-> "returns", text |-> <<chars>>] :
             chars \in { <<>>, <<" ">>, <<"h", "i">> } }

\* pc: where the generator is; llm: "none", "loaded" or "failed" (load_model
\* returned None); result, video_id, video_check_url, elapsed, status: the
\* locals of converse; clock: seconds of wall-clock time since the polling
\* loop was entered; emitted: the elements yielded; retval: the value of a
\* `return` statement; posts, gets: requests issued; polled: locators
\* requested.
NewTurn ==
    [pc |-> "start", llm |-> "none", result |-> <<>>, video_id |-> None,
     video_check_url |-> None, elapsed |-> 0, status |-> None, clock |-> 0,
     emitted |-> <<>>, retval |-> <<>>, posts |-> 0, gets |-> 0, polled |-> {}]

\* first next(): lines 80-94, given whether the model loads, what
\* agent.exec does and what the service answers to the creation request
ConverseStartWith(t, loaded, exec, resp) ==
    /\ turn[t].pc = "start"
    /\   IF ~loaded
         THEN turn' = [turn EXCEPT
                  ![t].pc = "done",
                  ![t].llm = "failed",
                  ![t].retval = << Output(<< <<"Error loading language model.">> >>, None, None) >>]
         ELSE IF exec.kind = "raises"
         THEN turn' = [turn EXCEPT ![t].pc = "raised", ![t].llm = "loaded"]
         ELSE LET r == generate_avatar_video(exec.text, resp)
              IN  IF ~Truthy(r.out.video_id)
                  THEN turn' = [turn EXCEPT
                           ![t].pc = "done",
                           ![t].llm = "loaded",
                           ![t].result = exec.text,
                           ![t].posts = r.posts,
                           ![t].retval = << Output(exec.text, None, "Error generating video.") >>]
                  ELSE turn' = [turn EXCEPT
                           ![t].pc = "loading",
                           ![t].llm = "loaded",
                           ![t].result = exec.text,
                           ![t].posts = r.posts,
                           ![t].video_id = r.out.video_id,
                           ![t].video_check_url = r.out.video_check_url,
                           ![t].emitted = << Output(exec.text,
                               "Video is being generated, please wait...", None) >>]

ConverseStart(t) ==
    \E loaded \in BOOLEAN, exec \in ExecOutcomes, resp \in CreateResponses :
        ConverseStartWith(t, loaded, exec, resp)

\* (mutant) a `deleted` job is polled on
EndsPolling_NoDeleted(resp) ==
    \/ resp.kind # "ok"
    \/ resp.data.status = "ready"
    \/ resp.data.status = "error"

\* lines 103-122: the status response makes the loop yield and return
EndsPolling(resp) ==
    \/ resp.kind # "ok"
    \/ resp.data.status = "ready"
    \/ resp.data.status \in {"error", "deleted"}

\* the element yielded for such a response
StatusOutput(text, resp) ==
    IF resp.kind # "ok"
    THEN Output(text, None, "Error checking video status.")
    ELSE IF resp.data.status = "ready"
    THEN IF ~Truthy(resp.data.download_url)
         THEN Output(text, None, "Video ready but no download URL.")
         ELSE Output(text, resp.data.download_url, None)
    ELSE Output(text, None,
             Or(resp.data.status_details, "Video status: " \o resp.data.status))

\* line 109: `status = status_response.get("status")`; the assignment is
\* not reached when the request raised
StatusLocal(old, resp) ==
    IF resp.kind # "ok" THEN old
    ELSE IF resp.data.status = MissingStatus THEN None
    ELSE resp.data.status

\* the handle the service gives to the n-th job it queues
JobId(n) == "job" \o ToString(n)

\* line 72: the status locator of a handle
CheckUrl(video_id) == "https://tavusapi.com/v2/videos/" \o video_id

\* (mutant) the locator is kept in one place shared by the turns and holds
\* the locator of the job queued last
PolledUrl_Shared(t) == CheckUrl(JobId(Cardinality(DOMAIN service)))

\* line 104: the locator the status request of turn t goes to
PolledUrl(t) == turn[t].video_check_url

\* one pass of the loop of lines 100-123: sleep, then a status request to
\* `url` that takes d seconds and is answered with resp
ConversePollWith(t, url, resp, d) ==
    /\ turn[t].pc \in {"loading", "polling"}
    /\ turn[t].elapsed < max_wait_seconds
    /\ LET base == [turn EXCEPT
                       ![t].elapsed = @ + poll_interval,
                       ![t].clock = @ + poll_interval + d,
                       ![t].status = StatusLocal(@, resp),
                       ![t].gets = @ + 1,
                       ![t].polled = @ \cup {url}]
       IN  IF ~EndsPolling(resp)
           THEN turn' = [base EXCEPT ![t].pc = "polling"]
           ELSE turn' = [base EXCEPT
                    ![t].pc = "yield_final",
                    ![t].emitted = Append(@, StatusOutput(turn[t].result, resp))]

ConversePoll(t) ==
    \E resp \in StatusResponses, d \in 0..MaxPollTime :
        ConversePollWith(t, PolledUrl(t), resp, d)

\* the loop ends: line 124
ConverseTimeout(t) ==
    /\ turn[t].pc \in {"loading", "polling"}
    /\ ~(turn[t].elapsed < max_wait_seconds)
    /\ turn' = [turn EXCEPT
           ![t].pc = "yield_final",
           ![t].emitted = Append(@, Output(turn[t].result, None,
                                           "Video generation timed out."))]

\* next() while suspended at a final yield: the generator is exhausted
ConverseFinish(t) ==
    /\ turn[t].pc = "yield_final"
    /\ turn' = [turn EXCEPT ![t].pc = "done"]

InitConverse ==
    /\ IdleWaitVars
    /\ IdleCreateVars
    /\ IdleConfig
    /\ service = <<>>
    /\ turn = [t \in {1} |-> NewTurn]

NextConverse ==
    \E t \in DOMAIN turn :
        \/ ConverseStart(t) /\ UNCHANGED <<waitVars, createVars, service, configVars>>
        \/ ConversePoll(t) /\ UNCHANGED <<waitVars, createVars, service, configVars>>
        \/ ConverseTimeout(t) /\ UNCHANGED <<waitVars, createVars, service, configVars>>
        \/ ConverseFinish(t) /\ UNCHANGED <<waitVars, createVars, service, configVars>>

SpecConverse == InitConverse /\ [][NextConverse]_vars

----------------------------------------------------------------------------
(* Properties of converse *)

\* C10: in every turn that has ended after the reply text was obtained, the
\* text has been delivered to the presentation layer; when video creation
\* failed it was delivered together with a labelled video error.
C10_TextAlwaysDelivered ==
    \A t \in DOMAIN turn :
        turn[t].pc = "done" /\ turn[t].result # <<>> =>
            /\ \E i \in 1..Len(turn[t].emitted) :
                   turn[t].emitted[i].text = turn[t].result
            /\ turn[t].video_id = None =>
                   \E i \in 1..Len(turn[t].emitted) :
                       /\ turn[t].emitted[i].text = turn[t].result
                       /\ Truthy(turn[t].emitted[i].label)

\* C11: the wait has one deadline, start + maxWait, fixed when the wait
\* begins; time spent in status requests does not move it, so a loop check
\* made at or after start + maxWait ends the wait with the timeout element
\* instead of sleeping and polling again.  For converse: at a loop check
\* (pc = "polling") that the clock shows to be at or after the deadline, the
\* loop condition is false.
C11_DeadlineNotExtended ==
    \A t \in DOMAIN turn :
        turn[t].pc = "polling" /\ turn[t].clock >= max_wait_seconds =>
            ~(turn[t].elapsed < max_wait_seconds)

----------------------------------------------------------------------------
(* Properties of wait_for_video, continued *)

\* C12: polling is driven by the consumer: there are never more status
\* requests than elements requested, a status request or a sleep (the clock
\* moving) happens only in a step in which the consumer requests an element,
\* and once the consumer has abandoned the sequence nothing more is
\* requested and no time is slept.
C12_PullBased ==
    /\ [](polls <= pulls)
    /\ [][(polls' # polls \/ now' # now) => pulls' = pulls + 1]_vars
    /\ [][wpc = "closed" => polls' = polls /\ now' = now /\ wpc' = "closed"]_vars

C12_Witness ==
    /\ wpc = "closed"
    /\ polls = 2
    /\ pulls = 2
    /\ Last(yielded).status = "generating"

----------------------------------------------------------------------------
(* Properties of converse, continued *)

LoadingOutput(text) == Output(text, "Video is being generated, please wait...", None)

\* the turn's video creation succeeded
Created(t) == turn[t].video_id # None

\* C13 (as stated): in a turn whose creation succeeded, the "in progress"
\* indication is emitted first and every polled status, non-terminal ones
\* included, is forwarded: there are at least 1 + (status requests made)
\* elements.
C13_Original ==
    \A t \in DOMAIN turn :
        Created(t) =>
            /\ Len(turn[t].emitted) >= 1
            /\ turn[t].emitted[1] = LoadingOutput(turn[t].result)
            /\ Len(turn[t].emitted) >= 1 + turn[t].gets

\* C13 (amended): in a turn whose creation succeeded, the "in progress"
\* indication is emitted first, before any status request; while the polled
\* statuses are non-terminal nothing more is emitted; exactly one more
\* element is emitted, for the first ready/error/deleted status, for a failed
\* status request or for the timeout, and it is the last.
C13_OnlyTerminalForwarded ==
    \A t \in DOMAIN turn :
        Created(t) =>
            /\ Len(turn[t].emitted) >= 1
            /\ turn[t].emitted[1] = LoadingOutput(turn[t].result)
            /\ turn[t].pc = "loading" =>
                  turn[t].gets = 0 /\ Len(turn[t].emitted) = 1
            /\ turn[t].pc = "polling" =>
                  /\ Len(turn[t].emitted) = 1
                  /\ turn[t].status \notin {"ready", "error", "deleted"}
            /\ turn[t].pc \in {"yield_final", "done"} =>
                  /\ Len(turn[t].emitted) = 2
                  /\ \/ turn[t].status \in {"ready", "error", "deleted"}
                     \/ turn[t].emitted[2].label = "Error checking video status."
                     \/ /\ turn[t].emitted[2].label = "Video generation timed out."
                        /\ turn[t].elapsed >= max_wait_seconds

C13_Witness ==
    \E t \in DOMAIN turn :
        /\ Created(t)
        /\ turn[t].pc = "done"
        /\ turn[t].gets = 3
        /\ turn[t].status = "ready"
        /\ Len(turn[t].emitted) = 2
        /\ turn[t].emitted[2].value = "https://x/y.mp4"

\* C14: a turn makes at most one creation request, and only with a reply
\* text that is not empty; a turn that has ended with a job has emitted
\* exactly one terminal element after the "in progress" indication; and once
\* that element is emitted the turn issues no creation request and no status
\* request any more.
C14_OneJobOneTerminal ==
    /\ [](\A t \in DOMAIN turn :
            /\ turn[t].posts <= 1
            /\ turn[t].posts = 1 =>
                  /\ turn[t].llm = "loaded"
                  /\ turn[t].result # <<>>
                  /\ turn[t].result[1] # <<>>
            /\ Created(t) => turn[t].posts = 1
            /\ Len(turn[t].emitted) <= 2
            /\ turn[t].pc = "done" /\ Created(t) => Len(turn[t].emitted) = 2)
    /\ [][\A t \in DOMAIN turn :
            turn[t].pc \in {"yield_final", "done"} =>
                /\ turn'[t].posts = turn[t].posts
                /\ turn'[t].gets = turn[t].gets
                /\ turn'[t].emitted = turn[t].emitted]_vars

C14_Witness ==
    \E t \in DOMAIN turn :
        /\ turn[t].pc = "done"
        /\ turn[t].posts = 1
        /\ turn[t].gets = 2
        /\ turn[t].status = "deleted"
        /\ Len(turn[t].emitted) = 2

\* the turn ended without a reply: load_model returned None, or agent.exec
\* raised
ReplyFailed(t) ==
    \/ turn[t].pc = "done" /\ turn[t].llm = "failed"
    \/ turn[t].pc = "raised"

\* C15: when obtaining the reply fails, the turn emits a failure message to
\* the presentation layer and stops, having created no video job and issued
\* no status request.
C15_FailureSurfaced ==
    \A t \in DOMAIN turn :
        ReplyFailed(t) =>
            /\ Len(turn[t].emitted) = 1
            /\ Truthy(turn[t].emitted[1].text[1][1])
            /\ turn[t].posts = 0
            /\ turn[t].gets = 0

----------------------------------------------------------------------------
(* Configuration loading: AppConfig.from_env (src/config.py) and the module *)
(* initialisation of src/app.py.  An environment value is <<>> (the         *)
(* variable is not set) or <<chars>>.                                       *)

EnvValues == {<<>>} \cup { <<chars>> : chars \in SeqsUpTo({" ", "k"}, MaxEnvLen) }

Envs == [GROQ_API_KEY : EnvValues, TAVUS_API_KEY : EnvValues,
         TAVUS_REPLICA_ID : EnvValues]

\* os.getenv(name, "").strip()
GetenvStripped(v) == IF v = <<>> THEN <<>> ELSE Strip(v[1])

\* the replica used when TAVUS_REPLICA_ID gives none: "rcefb7292e"
DemoReplica == << "rcefb7292e" >>

\* (mutant) the load fails only when both keys are missing
MissingKey_Both(groq_key, tavus_key) == groq_key = <<>> /\ tavus_key = <<>>

\* config.py line 43: `not groq_key or not tavus_key`
MissingKey(groq_key, tavus_key) == groq_key = <<>> \/ tavus_key = <<>>

\* AppConfig.from_env: raises ValueError, or returns the configuration
from_env(e) ==
    LET groq_key == GetenvStripped(e.GROQ_API_KEY)
        tavus_key == GetenvStripped(e.TAVUS_API_KEY)
        replica_id == GetenvStripped(e.TAVUS_REPLICA_ID)
    IN  IF MissingKey(groq_key, tavus_key)
        THEN [kind |-> "raised", groq_api_key |-> <<>>, api_key |-> <<>>,
              replica_id |-> <<>>]
        ELSE [kind |-> "config", groq_api_key |-> groq_key, api_key |-> tavus_key,
              replica_id |-> IF replica_id = <<>> THEN DemoReplica ELSE replica_id]

\* os.getenv(name): None and "" are both false
GetenvRaw(v) == IF v = <<>> THEN <<>> ELSE v[1]

\* app.py lines 11-16: raises ValueError, or leaves the three globals set
app_module_init(e) ==
    IF MissingKey(GetenvRaw(e.GROQ_API_KEY), GetenvRaw(e.TAVUS_API_KEY))
    THEN [kind |-> "raised", groq_api_key |-> <<>>, api_key |-> <<>>,
          replica_id |-> <<>>]
    ELSE [kind |-> "config", groq_api_key |-> GetenvRaw(e.GROQ_API_KEY),
          api_key |-> GetenvRaw(e.TAVUS_API_KEY),
          replica_id |-> GetenvRaw(e.TAVUS_REPLICA_ID)]

\* a call of AppConfig.from_env (get_config, TavusClient.__init__)
LoadFromEnv ==
    /\ loading.pc = "called"
    /\ loading.path = "from_env"
    /\ loading' = [loading EXCEPT !.pc = "ended", !.out = from_env(env)]
    /\ UNCHANGED env

\* app.py is imported
AppModuleInit ==
    /\ loading.pc = "called"
    /\ loading.path = "app"
    /\ loading' = [loading EXCEPT !.pc = "ended", !.out = app_module_init(env)]
    /\ UNCHANGED env

NotLoaded == [kind |-> "none", groq_api_key |-> <<>>, api_key |-> <<>>, replica_id |-> <<>>]

InitConfig ==
    /\ IdleWaitVars
    /\ IdleCreateVars
    /\ IdleTurn
    /\ env \in Envs
    /\ \E path \in {"from_env", "app"} :
         loading = [pc |-> "called", path |-> path, out |-> NotLoaded]

NextConfig ==
    \/ LoadFromEnv /\ UNCHANGED <<waitVars, createVars, turnVars>>
    \/ AppModuleInit /\ UNCHANGED <<waitVars, createVars, turnVars>>

SpecConfig == InitConfig /\ [][NextConfig]_vars

----------------------------------------------------------------------------
(* Properties of configuration loading *)

\* the variable is not set, or empty once whitespace is trimmed (stated on
\* the characters)
Blank(v) == v = <<>> \/ \A i \in 1..Len(v[1]) : IsSpace(v[1][i])

\* the variable is not set or is the empty string
Unset(v) == v = <<>> \/ v[1] = <<>>

\* C16 (as stated): loading fails whenever the conversational-model
\* credential, the video-service credential or the persona identifier is
\* absent or empty after trimming.
C16_Original ==
    loading.pc = "ended" /\ loading.path = "from_env"
        /\ (Blank(env.GROQ_API_KEY) \/ Blank(env.TAVUS_API_KEY)
                \/ Blank(env.TAVUS_REPLICA_ID))
    => loading.out.kind = "raised"

\* C16 (amended): AppConfig.from_env fails exactly when one of the two
\* credentials is absent or empty after trimming; an absent or empty persona
\* identifier does not make it fail but is replaced by the demo identifier,
\* so a configuration it returns has non-empty credentials and persona
\* identifier.  The module initialisation of app.py fails exactly when one
\* of the two credentials is not set or is the empty string (no trimming)
\* and does not look at the persona identifier.
C16_FailFastOnKeysOnly ==
    loading.pc = "ended" =>
        /\ loading.path = "from_env" =>
              /\ loading.out.kind = "raised"
                    <=> (Blank(env.GROQ_API_KEY) \/ Blank(env.TAVUS_API_KEY))
              /\ loading.out.kind = "config" =>
                    /\ loading.out.groq_api_key # <<>>
                    /\ loading.out.api_key # <<>>
                    /\ loading.out.replica_id # <<>>
                    /\ Blank(env.TAVUS_REPLICA_ID) <=>
                           loading.out.replica_id = DemoReplica
        /\ loading.path = "app" =>
              /\ loading.out.kind = "raised"
                    <=> (Unset(env.GROQ_API_KEY) \/ Unset(env.TAVUS_API_KEY))
              /\ loading.out.kind = "config" =>
                    loading.out.replica_id = GetenvRaw(env.TAVUS_REPLICA_ID)

C16_Witness ==
    /\ loading.pc = "ended"
    /\ loading.path = "from_env"
    /\ env.GROQ_API_KEY = << <<"k">> >>
    /\ env.TAVUS_API_KEY = << <<"k", " ">> >>
    /\ env.TAVUS_REPLICA_ID = << <<" ">> >>
    /\ loading.out.kind = "config"
    /\ loading.out.api_key = <<"k">>
    /\ loading.out.replica_id = DemoReplica

----------------------------------------------------------------------------
(* Properties of wait_for_video: statuses that are not known kinds *)

KnownKinds == {"queued", "generating", "ready", "error", "deleted"}

\* the i-th status request was answered with a body whose status is missing
\* or is no known kind
Unrecognised(i) ==
    answers[i].kind = "ok" /\ answers[i].data.status \notin KnownKinds

\* C17 (as stated): a polled status that is missing or not a known kind is
\* yielded with kind `unknown`.
C17_Original ==
    \A i \in 1..polls : Unrecognised(i) => yielded[i].status = "unknown"

\* C17 (amended): a missing status is yielded as `unknown` and a value that
\* is no known kind is yielded unchanged; neither ends the sequence (such an
\* element is never the last of a finished sequence), and a finished
\* sequence all of whose polls were of this sort ends with the timeout
\* element, after the deadline and not earlier.
C17_UnrecognisedIsNonTerminal ==
    /\ \A i \in 1..polls :
          Unrecognised(i) =>
              /\ yielded[i].status =
                     IF answers[i].data.status = MissingStatus
                     THEN "unknown" ELSE answers[i].data.status
              /\ wpc = "done" => i < Len(yielded)
    /\ (PositiveArgs /\ wpc = "done" /\ \A i \in 1..polls : Unrecognised(i)) =>
          /\ Len(yielded) = polls + 1
          /\ Last(yielded) = TimeoutResult
          /\ now >= deadline
          /\ \A i \in 1..polls : yielded[i].status \notin TerminalKinds

C17_Witness ==
    /\ PositiveArgs
    /\ wpc = "done"
    /\ polls = 2
    /\ answers[1].data.status = MissingStatus
    /\ answers[1].kind = "ok"
    /\ answers[2].data.status = "processing"
    /\ yielded[1].status = "unknown"
    /\ yielded[2].status = "processing"
    /\ Last(yielded) = TimeoutResult

----------------------------------------------------------------------------
(* Several turns of converse against one video service.  `service` maps the *)
(* status locator of each queued job to the job: its plan (`generating` for *)
(* the first `after` status requests, then `final` for ever; or              *)
(* `generating` for ever) and the number of status requests it has served.  *)
(* Status requests take no time here.                                        *)

Generating == [kind |-> "ok", data |-> StatusData("generating", None, None)]

JobPlans ==
    { [never |-> TRUE, after |-> 0, final |-> Generating] }
    \cup { [never |-> FALSE, after |-> k, final |-> f] :
             k \in 0..MaxAfter,
             f \in { [kind |-> "ok", data |-> StatusData("ready", "https://x/y.mp4", None)],
                     [kind |-> "ok", data |-> StatusData("error", None, "render failed")],
                     [kind |-> "ok", data |-> StatusData("deleted", None, None)],
                     [kind |-> "request_exception",
                      data |-> StatusData(MissingStatus, None, None)] } }

\* what the service answers to a status request for the job at `url`
ServiceAnswer(url) ==
    LET job == service[url]
    IN  IF ~job.plan.never /\ job.served >= job.plan.after
        THEN job.plan.final
        ELSE Generating

\* the creation response of the service: a response that queues a job
\* carries the handle of a new job
Queues(resp) ==
    /\ resp.kind = "response"
    /\ ResponseOk(resp)
    /\ resp.data.status = "queued"
    /\ Truthy(resp.data.video_id)

WithNewJob(resp) ==
    IF Queues(resp)
    THEN [resp EXCEPT !.data.video_id = JobId(Cardinality(DOMAIN service) + 1)]
    ELSE resp

\* the creation responses explored with several turns: a transport
\* failure, and answers without error text that are or are not a success,
\* queued or not, with or without a handle
TurnCreateResponses ==
    { r \in CreateResponses :
        \/ r.kind = "request_exception"
        \/ /\ r.data.error = None
           /\ r.data.message = None
           /\ r.reason # ""
           /\ r.data.status \in {"queued", "error"}
           /\ r.data.video_id # "" }

\* first next() of turn t; a job the creation request queued is recorded by
\* the service with its plan
TurnStart(t) ==
    \E loaded \in BOOLEAN, exec \in ExecOutcomes, resp \in TurnCreateResponses,
       plan \in JobPlans :
        /\ ConverseStartWith(t, loaded, exec, WithNewJob(resp))
        /\ service' =
               IF turn'[t].posts = 1 /\ Queues(resp)
               THEN LET url == CheckUrl(WithNewJob(resp).data.video_id)
                    IN  [u \in DOMAIN service \cup {url} |->
                            IF u = url THEN [plan |-> plan, served |-> 0]
                            ELSE service[u]]
               ELSE service

\* one loop pass of turn t answered by the service
TurnPoll(t) ==
    /\ turn[t].pc \in {"loading", "polling"}
    /\ LET url == PolledUrl(t)
       IN  /\ ConversePollWith(t, url, ServiceAnswer(url), 0)
           /\ service' = [service EXCEPT ![url].served = @ + 1]

TurnIds == {1, 2}

InitTurns ==
    /\ IdleWaitVars
    /\ IdleCreateVars
    /\ IdleConfig
    /\ service = <<>>
    /\ turn = [t \in TurnIds |-> NewTurn]

NextTurns ==
    \E t \in DOMAIN turn :
        \/ TurnStart(t) /\ UNCHANGED <<waitVars, createVars, configVars>>
        \/ TurnPoll(t) /\ UNCHANGED <<waitVars, createVars, configVars>>
        \/ ConverseTimeout(t) /\ UNCHANGED <<waitVars, createVars, service, configVars>>
        \/ ConverseFinish(t) /\ UNCHANGED <<waitVars, createVars, service, configVars>>

SpecTurns == InitTurns /\ [][NextTurns]_vars

----------------------------------------------------------------------------
(* Properties of interleaved turns *)

\* the job of turn t, as the service holds it
OwnJob(t) == service[CheckUrl(turn[t].video_id)]

\* what turn t has emitted after the "in progress" indication, as its own
\* job's plan and the number of its own status requests determine it
OwnOutcome(t) ==
    LET plan == OwnJob(t).plan
    IN  IF plan.never
        THEN /\ turn[t].gets = max_wait_seconds \div poll_interval
             /\ turn[t].emitted[2] =
                    Output(turn[t].result, None, "Video generation timed out.")
        ELSE /\ turn[t].gets = plan.after + 1
             /\ turn[t].emitted[2] = StatusOutput(turn[t].result, plan.final)

\* C18: with turns interleaved in any order, the jobs of different turns are
\* different; each turn requests only the status locator of the handle its
\* own creation call returned, so a job has served exactly its own turn's
\* requests; a turn's poll counter counts its own requests only; the
\* terminal element it emits is the one its own job's statuses determine;
\* and a step of one turn changes no other turn.
C18_TurnsIndependent ==
    /\ [](\A t \in DOMAIN turn :
            Created(t) =>
                /\ \A u \in DOMAIN turn :
                      u # t /\ Created(u) => turn[u].video_id # turn[t].video_id
                /\ turn[t].video_check_url = CheckUrl(turn[t].video_id)
                /\ turn[t].polled \subseteq {turn[t].video_check_url}
                /\ OwnJob(t).served = turn[t].gets
                /\ turn[t].elapsed = poll_interval * turn[t].gets
                /\ turn[t].pc \in {"yield_final", "done"} => OwnOutcome(t))
    /\ [][\A t, u \in DOMAIN turn :
            t # u /\ turn'[t] # turn[t] => turn'[u] = turn[u]]_vars

C18_Witness ==
    /\ turn[1].pc = "polling"
    /\ turn[1].gets = 3
    /\ turn[1].video_id = "job2"
    /\ turn[2].pc = "done"
    /\ turn[2].gets = 2
    /\ turn[2].video_id = "job1"
    /\ turn[2].emitted[2].value = "https://x/y.mp4"

----------------------------------------------------------------------------
(* wait_for_video: omitted and zero arguments (tavus_client.py 144-147) *)

\* the caller left each argument out or passed a value that is not negative
NonNegativeArgs ==
    /\ w_args.poll_interval = <<>> \/ w_args.poll_interval[1] >= 0
    /\ w_args.max_wait = <<>> \/ w_args.max_wait[1] >= 0

\* C19: when poll_interval and max_wait are omitted or non-negative, a wait
\* that has started has made and yielded at least one status poll before any
\* timeout element (the sequence is never the timeout element alone), and
\* the sleep between polls is positive: a 0 is replaced by the configured
\* default
C19_AtLeastOnePoll ==
    (NonNegativeArgs /\ wpc # "created") =>
        /\ polls >= 1
        /\ Len(yielded) >= 1
        /\ yielded # <<TimeoutResult>>
        /\ yielded[1] = get_status(answers[1])
        /\ interval > 0
        /\ interval = IF w_args.poll_interval \in {<<>>, <<0>>}
                      THEN tavus.poll_interval_seconds
                      ELSE w_args.poll_interval[1]
        /\ deadline > start

\* a wait called with poll_interval = 0 and max_wait = 0 that polled, slept
\* the configured interval and ended on the timeout element
C19_Witness ==
    /\ w_args.poll_interval = <<0>>
    /\ w_args.max_wait = <<0>>
    /\ wpc = "done"
    /\ polls >= 2
    /\ Len(yielded) = polls + 1
    /\ Last(yielded) = TimeoutResult
    /\ interval = tavus.poll_interval_seconds

====
